---------------------------- MODULE Spec2Model ----------------------------
(***************************************************************************)
(* Model of tree.py: a directory tree printer that filters entries through *)
(* gitignore-style rules read from .treeignore.                            *)
(*                                                                         *)
(* Strings are sequences of code points, each code point written as a      *)
(* one-character TLA+ string.  The box-drawing glyphs and the ANSI colour  *)
(* sequences, which are not ASCII, are written as named tokens.            *)
(* A path is a sequence of components; a component is a string.           *)
(***************************************************************************)
EXTENDS Integers, Sequences, FiniteSets, TLC

VARIABLES
    fs,          \* the file system: a set of entries [path, kind, readable]
    ignore_file, \* the lines of <root>/.treeignore, or NoFile
    pathspec,    \* the compiled rules main() holds
    stack,       \* the call stack of print_tree: one frame per active call
    out,         \* standard output: the sequence of printed lines
    printed,     \* history: for each line of out, the path print_tree held
    queries,     \* history: every call should_ignore(relative_posix_path, _)
    pc           \* "main" before main() runs, "print_tree", then "exit"

vars == <<fs, ignore_file, pathspec, stack, out, printed, queries, pc>>

---------------------------------------------------------------------------
(* Bounds of the model.                                                    *)

\* the deepest entry below the root
MaxDepth == 3
\* the number of entries below the root
MaxEntries == 4
\* the number of lines of .treeignore
MaxRules == 2

---------------------------------------------------------------------------
(* Strings.                                                                *)

\* ord(c) for the characters that occur in entry names
Code(c) ==
    CASE c = "." -> 46
      [] c = "B" -> 66
      [] c = "a" -> 97
      [] c = "b" -> 98
      [] c = "e" -> 101
      [] c = "f" -> 102
      [] c = "g" -> 103
      [] c = "i" -> 105
      [] c = "k" -> 107
      [] c = "l" -> 108
      [] c = "n" -> 110
      [] c = "o" -> 111
      [] c = "p" -> 112
      [] c = "r" -> 114
      [] c = "t" -> 116
      [] c = "x" -> 120

\* s < t on Python str: lexicographic by code point, a proper prefix first
RECURSIVE StrLess(_, _)
StrLess(s, t) ==
    IF t = <<>> THEN FALSE
    ELSE IF s = <<>> THEN TRUE
    ELSE IF Head(s) = Head(t) THEN StrLess(Tail(s), Tail(t))
    ELSE Code(Head(s)) < Code(Head(t))

\* a faulty variant of StrLess: compares case-insensitively (key=str.lower)
Lower(c) == IF c = "B" THEN "b" ELSE c
RECURSIVE StrLessNoCase(_, _)
StrLessNoCase(s, t) ==
    IF t = <<>> THEN FALSE
    ELSE IF s = <<>> THEN TRUE
    ELSE IF Lower(Head(s)) = Lower(Head(t)) THEN StrLessNoCase(Tail(s), Tail(t))
    ELSE Code(Lower(Head(s))) < Code(Lower(Head(t)))

\* a faulty variant of sorted: sorted(S, key=str.lower)
RECURSIVE sortedNoCase(_)
sortedNoCase(S) ==
    IF S = {} THEN <<>>
    ELSE LET m == CHOOSE x \in S : \A y \in S : x = y \/ StrLessNoCase(x, y)
         IN  <<m>> \o sortedNoCase(S \ {m})

\* sorted(S) for a set of distinct strings, smallest first
RECURSIVE sorted(_)
sorted(S) ==
    IF S = {} THEN <<>>
    ELSE LET m == CHOOSE x \in S : \A y \in S : x = y \/ StrLess(x, y)
         IN  <<m>> \o sorted(S \ {m})

\* sep.join(parts)
RECURSIVE Join(_, _)
Join(parts, sep) ==
    IF parts = <<>> THEN <<>>
    ELSE IF Len(parts) = 1 THEN parts[1]
    ELSE parts[1] \o sep \o Join(Tail(parts), sep)

\* s.split(sep) for a one-character sep, read left to right: done holds the
\* pieces already closed by a sep and cur the piece being read
RECURSIVE SplitFrom(_, _, _, _)
SplitFrom(s, sep, done, cur) ==
    IF s = <<>> THEN Append(done, cur)
    ELSE IF Head(s) = sep THEN SplitFrom(Tail(s), sep, Append(done, cur), <<>>)
    ELSE SplitFrom(Tail(s), sep, done, Append(cur, Head(s)))

\* "a/b/" gives <<"a", "b", "">>, and "" gives <<"">>
Split(s, sep) == SplitFrom(s, sep, <<>>, <<>>)

IsPrefixOf(s, t) == Len(s) <= Len(t) /\ SubSeq(t, 1, Len(s)) = s

---------------------------------------------------------------------------
(* The pattern matcher: PathSpec.from_lines('gitwildmatch', lines) and     *)
(* PathSpec.match_file.  The rules use literal characters, "*", "?", a     *)
(* leading "!", a leading or trailing "/" and "#" comments.                *)

\* fnmatch of one path component against one pattern segment
RECURSIVE GlobMatch(_, _)
GlobMatch(pat, s) ==
    IF pat = <<>> THEN s = <<>>
    ELSE IF Head(pat) = "*"
         THEN \E k \in 0..Len(s) : GlobMatch(Tail(pat), SubSeq(s, k + 1, Len(s)))
    ELSE IF s = <<>> THEN FALSE
    ELSE IF Head(pat) = "?" THEN GlobMatch(Tail(pat), Tail(s))
    ELSE Head(pat) = Head(s) /\ GlobMatch(Tail(pat), Tail(s))

\* "none": a blank line or a comment, which takes no part in matching
NoPattern == [include |-> "none", anchored |-> FALSE, dir_only |-> FALSE, segs |-> <<>>]

\* one line of the ignore file, compiled
CompilePattern(line) ==
    IF line = <<>> \/ Head(line) = "#" THEN NoPattern
    ELSE
    LET negated == Head(line) = "!"
        body    == IF negated THEN Tail(line) ELSE line
        parts   == Split(body, "/")
        lead    == Len(parts) > 1 /\ parts[1] = <<>>
        trail   == Len(parts) > 1 /\ parts[Len(parts)] = <<>>
        inner   == SubSeq(parts, IF lead THEN 2 ELSE 1,
                                 IF trail THEN Len(parts) - 1 ELSE Len(parts))
    IN  IF inner = <<>> \/ \E i \in 1..Len(inner) : inner[i] = <<>> THEN NoPattern
        ELSE [include  |-> IF negated THEN "no" ELSE "yes",
              anchored |-> lead \/ Len(inner) > 1,
              dir_only |-> trail,
              segs     |-> inner]

\* PathSpec.from_lines('gitwildmatch', lines): the rules in the order given
RECURSIVE from_lines(_)
from_lines(lines) ==
    IF lines = <<>> THEN <<>>
    ELSE <<CompilePattern(Head(lines))>> \o from_lines(Tail(lines))

\* whether one compiled rule matches the path text.  Its segments match
\* consecutive components of the path, from the first one if the rule is
\* anchored.  A rule that excludes matches the entry it names and, as
\* gitignore has it, all that lies beneath; a directory-only rule needs a "/"
\* after the last matched component; a negated rule that is not
\* directory-only names the entry itself, file or directory, and no more
PatternMatches(p, text) ==
    LET parts == Split(text, "/")
        isdir == Len(parts) > 1 /\ parts[Len(parts)] = <<>>
        comps == IF isdir THEN SubSeq(parts, 1, Len(parts) - 1) ELSE parts
        n     == Len(comps)
        m     == Len(p.segs)
    IN  /\ p.include # "none"
        /\ \E k \in 1..n :
              /\ p.anchored => k = 1
              /\ k + m - 1 <= n
              /\ \A i \in 1..m : GlobMatch(p.segs[i], comps[k + i - 1])
              /\ p.dir_only => (k + m - 1 < n \/ isdir)
              /\ (p.include = "no" /\ ~p.dir_only) => k + m - 1 = n

\* PathSpec.match_file: every rule is tried in order and each one that
\* matches overwrites the verdict
RECURSIVE MatchFrom(_, _, _)
MatchFrom(spec, text, matched) ==
    IF spec = <<>> THEN matched
    ELSE MatchFrom(Tail(spec), text,
                   IF PatternMatches(Head(spec), text)
                   THEN Head(spec).include = "yes"
                   ELSE matched)

match_file(spec, text) == MatchFrom(spec, text, FALSE)

---------------------------------------------------------------------------
(* The ignore file.                                                        *)

\* str.splitlines() of a text whose only line break is "\n"
splitlines(text) ==
    LET parts == Split(text, "\n")
    IN  IF parts[Len(parts)] = <<>> THEN SubSeq(parts, 1, Len(parts) - 1) ELSE parts

\* a faulty variant of load_treeignore_patterns: the lines are compiled last to first
RECURSIVE Reverse(_)
Reverse(q) == IF q = <<>> THEN <<>> ELSE Append(Reverse(Tail(q)), Head(q))
load_reversed(f) ==
    IF f.exists THEN from_lines(Reverse(splitlines(f.text))) ELSE from_lines(<<>>)

\* load_treeignore_patterns(ignore_file); f is the file as os.path.exists and
\* open see it
load_treeignore_patterns(f) ==
    IF f.exists THEN from_lines(splitlines(f.text)) ELSE from_lines(<<>>)

\* should_ignore(relative_posix_path, pathspec)
should_ignore(relative_posix_path, spec) == match_file(spec, relative_posix_path)

---------------------------------------------------------------------------
(* The file system and os.path.                                            *)

\* os.path.abspath('.'): the directory /r
root_dir == << <<"r">> >>

DOT_TREEIGNORE == <<".", "t", "r", "e", "e", "i", "g", "n", "o", "r", "e">>

File(path) == [path |-> path, kind |-> "file", readable |-> TRUE]
Dir(path, readable) == [path |-> path, kind |-> "dir", readable |-> readable]

\* os.path.join(dir_path, item)
join(dir_path, item) == Append(dir_path, item)

\* os.path.basename(path)
basename(path) == path[Len(path)]

\* os.path.isdir(path)
isdir(path) == \E n \in fs : n.path = path /\ n.kind = "dir"

\* the names of the entries of tree t that lie in directory path
listdirOf(t, path) ==
    { basename(n.path) : n \in { m \in t : /\ Len(m.path) = Len(path) + 1
                                          /\ SubSeq(m.path, 1, Len(path)) = path } }

\* os.listdir(path), as a set: the names come in no particular order
listdir(path) == listdirOf(fs, path)

\* whether os.listdir(path) succeeds; otherwise it raises PermissionError
CanList(path) == \E n \in fs : n.path = path /\ n.kind = "dir" /\ n.readable

\* the length of the longest common prefix of two paths
RECURSIVE CommonLen(_, _)
CommonLen(p, q) ==
    IF p = <<>> \/ q = <<>> \/ Head(p) # Head(q) THEN 0
    ELSE 1 + CommonLen(Tail(p), Tail(q))

\* os.path.relpath(path, start), as components
relpath(path, start) ==
    LET c   == CommonLen(path, start)
        ups == [i \in 1..(Len(start) - c) |-> <<".", ".">>]
        rel == ups \o SubSeq(path, c + 1, Len(path))
    IN  IF rel = <<>> THEN << <<".">> >> ELSE rel

\* Path(relative_path).as_posix()
as_posix(rel) == Join(rel, <<"/">>)

---------------------------------------------------------------------------
(* print_tree.                                                             *)

\* colorama's Fore.GREEN, Fore.BLUE and Style.BRIGHT, one token each
FORE_GREEN == "ESC[32m"
FORE_BLUE == "ESC[34m"
STYLE_BRIGHT == "ESC[1m"

\* the box-drawing glyphs, one token each
BOX_UP_RIGHT == "U+2514"
BOX_VERT_RIGHT == "U+251C"
BOX_HORIZ == "U+2500"
BOX_VERT == "U+2502"

LAST_CONNECTOR == <<BOX_UP_RIGHT, BOX_HORIZ, BOX_HORIZ, " ">>
MID_CONNECTOR == <<BOX_VERT_RIGHT, BOX_HORIZ, BOX_HORIZ, " ">>
PERMISSION_DENIED ==
    <<"[", "P", "e", "r", "m", "i", "s", "s", "i", "o", "n", " ",
      "D", "e", "n", "i", "e", "d", "]">>

\* a faulty variant of relative_posix_path: the path is taken relative to dir_path
relative_to_dir(dir_path, item, root_path) ==
    LET item_full_path == join(dir_path, item)
        text == as_posix(relpath(item_full_path, dir_path))
    IN  IF isdir(item_full_path) THEN text \o <<"/">> ELSE text

\* a faulty variant of relative_posix_path: directories get no trailing slash
relative_no_slash(dir_path, item, root_path) ==
    as_posix(relpath(join(dir_path, item), root_path))

\* the text print_tree hands to should_ignore for one item of dir_path
relative_posix_path(dir_path, item, root_path) ==
    LET item_full_path == join(dir_path, item)
        text == as_posix(relpath(item_full_path, root_path))
    IN  IF isdir(item_full_path) THEN text \o <<"/">> ELSE text

\* items = sorted(os.listdir(dir_path))
items(dir_path) == sorted(listdir(dir_path))

\* a faulty variant of filtered_items: nothing is filtered out
unfiltered_items(dir_path, root_path, spec) == items(dir_path)

\* the first loop of print_tree: the items the matcher does not exclude
filtered_items(dir_path, root_path, spec) ==
    LET Keep(item) == ~should_ignore(relative_posix_path(dir_path, item, root_path), spec)
    IN  SelectSeq(items(dir_path), Keep)

\* the calls of should_ignore that the first loop makes
FilterQueries(dir_path, root_path) ==
    { [arg            |-> relative_posix_path(dir_path, item, root_path),
       item_full_path |-> join(dir_path, item)] : item \in listdir(dir_path) }

\* a faulty variant of is_last_item: the last of all items, filtered out or not
is_last_of_all(frame) ==
    frame.filtered_items[frame.index] = items(frame.dir_path)[Len(items(frame.dir_path))]

\* is_last_item = index == (total_items - 1), index counted from 1 here
is_last_item(frame) == frame.index = Len(frame.filtered_items)

\* a faulty variant of connector: every item is drawn as if another one followed
connector_mid(is_last) == MID_CONNECTOR

connector(is_last) == IF is_last THEN LAST_CONNECTOR ELSE MID_CONNECTOR

\* a faulty variant of new_prefix: the vertical bar is drawn under the last item too
new_prefix_bar(prefix, is_last) == prefix \o <<BOX_VERT, " ", " ", " ">>

new_prefix(prefix, is_last) ==
    prefix \o (IF is_last THEN <<" ", " ", " ", " ">> ELSE <<BOX_VERT, " ", " ", " ">>)

\* the three print calls of print_tree, and the one of main
FileLine(prefix, conn, item) == prefix \o conn \o item
DirLine(prefix, conn, item) ==
    prefix \o conn \o <<FORE_BLUE, STYLE_BRIGHT>> \o item \o <<"/">>
DeniedLine(prefix) == prefix \o LAST_CONNECTOR \o PERMISSION_DENIED
RootLine(root_name) == <<FORE_GREEN, STYLE_BRIGHT>> \o root_name \o <<"/">>

\* the frame of a call print_tree(dir_path, prefix, root_path, spec) once its
\* first loop is done
Frame(dir_path, prefix, root_path, spec) ==
    [dir_path       |-> dir_path,
     prefix         |-> prefix,
     root_path      |-> root_path,
     filtered_items |-> filtered_items(dir_path, root_path, spec),
     index          |-> 1]

Top == stack[Len(stack)]
TopItem == Top.filtered_items[Top.index]
TopPath == join(Top.dir_path, TopItem)
InLoop == pc = "print_tree" /\ Top.index <= Len(Top.filtered_items)
Advance(st) == [st EXCEPT ![Len(st)].index = @ + 1]
Mark(path, what) == [path |-> path, what |-> what]

\* main(): the root line, then print_tree(root_dir, '', root_dir, pathspec)
\* up to the end of its first loop
Main ==
    /\ pc = "main"
    /\ pathspec' = load_treeignore_patterns(ignore_file)
    /\ IF CanList(root_dir)
       THEN /\ out' = <<RootLine(basename(root_dir))>>
            /\ printed' = <<Mark(root_dir, "root")>>
            /\ stack' = <<Frame(root_dir, <<>>, root_dir, pathspec')>>
            /\ queries' = FilterQueries(root_dir, root_dir)
            /\ pc' = "print_tree"
       ELSE /\ out' = <<RootLine(basename(root_dir)), DeniedLine(<<>>)>>
            /\ printed' = <<Mark(root_dir, "root"), Mark(root_dir, "denied")>>
            /\ stack' = <<>>
            /\ queries' = {}
            /\ pc' = "exit"
    /\ UNCHANGED <<fs, ignore_file>>

\* one pass of the second loop for a file
PrintFile ==
    /\ InLoop
    /\ ~isdir(TopPath)
    /\ out' = Append(out, FileLine(Top.prefix, connector(is_last_item(Top)), TopItem))
    /\ printed' = Append(printed, Mark(TopPath, "file"))
    /\ stack' = Advance(stack)
    /\ UNCHANGED <<fs, ignore_file, pathspec, queries, pc>>

\* a faulty variant of PrintDir: the subdirectory is not entered at once but queued,
\* to be listed once the directories being listed are done
PrintDirQueued ==
    /\ InLoop
    /\ isdir(TopPath)
    /\ CanList(TopPath)
    /\ out' = Append(out, DirLine(Top.prefix, connector(is_last_item(Top)), TopItem))
    /\ printed' = Append(printed, Mark(TopPath, "dir"))
    /\ stack' = <<[Frame(TopPath, new_prefix(Top.prefix, is_last_item(Top)),
                         Top.root_path, pathspec) EXCEPT !.index = 0]>> \o Advance(stack)
    /\ queries' = queries \cup FilterQueries(TopPath, Top.root_path)
    /\ UNCHANGED <<fs, ignore_file, pathspec, pc>>

\* one pass of the second loop for a directory that can be listed: its line,
\* then the recursive call up to the end of its first loop
PrintDir ==
    /\ InLoop
    /\ isdir(TopPath)
    /\ CanList(TopPath)
    /\ out' = Append(out, DirLine(Top.prefix, connector(is_last_item(Top)), TopItem))
    /\ printed' = Append(printed, Mark(TopPath, "dir"))
    /\ stack' = Append(stack, Frame(TopPath, new_prefix(Top.prefix, is_last_item(Top)),
                                    Top.root_path, pathspec))
    /\ queries' = queries \cup FilterQueries(TopPath, Top.root_path)
    /\ UNCHANGED <<fs, ignore_file, pathspec, pc>>

\* a faulty variant of PrintDirDenied: PermissionError is not caught in print_tree and
\* ends the traversal
PrintDirDeniedFatal ==
    /\ InLoop
    /\ isdir(TopPath)
    /\ ~CanList(TopPath)
    /\ out' = Append(out, DirLine(Top.prefix, connector(is_last_item(Top)), TopItem))
    /\ printed' = Append(printed, Mark(TopPath, "dir"))
    /\ stack' = <<>>
    /\ pc' = "exit"
    /\ UNCHANGED <<fs, ignore_file, pathspec, queries>>

\* one pass of the second loop for a directory whose listing raises
\* PermissionError: its line, the marker, and the return of the recursive call
PrintDirDenied ==
    /\ InLoop
    /\ isdir(TopPath)
    /\ ~CanList(TopPath)
    /\ out' = out \o <<DirLine(Top.prefix, connector(is_last_item(Top)), TopItem),
                      DeniedLine(new_prefix(Top.prefix, is_last_item(Top)))>>
    /\ printed' = printed \o <<Mark(TopPath, "dir"), Mark(TopPath, "denied")>>
    /\ stack' = Advance(stack)
    /\ UNCHANGED <<fs, ignore_file, pathspec, queries, pc>>

\* the second loop is over: print_tree returns to its caller, whose loop moves
\* on to its next item, or to main, which ends
Return ==
    /\ pc = "print_tree"
    /\ Top.index > Len(Top.filtered_items)
    /\ LET popped == SubSeq(stack, 1, Len(stack) - 1)
       IN  IF popped = <<>>
           THEN stack' = <<>> /\ pc' = "exit"
           ELSE stack' = Advance(popped) /\ pc' = pc
    /\ UNCHANGED <<fs, ignore_file, pathspec, out, printed, queries>>

Next == Main \/ PrintFile \/ PrintDir \/ PrintDirDenied \/ Return

---------------------------------------------------------------------------
(* The inputs: the directory trees and the ignore files main() may find.   *)

\* the entries that one more mkdir, touch or chmod can add to tree t: a name
\* of pool, not yet taken, in a directory of t that can be listed
NewEntries(t, pool) ==
    UNION { UNION { {File(join(d.path, n)), Dir(join(d.path, n), TRUE),
                     Dir(join(d.path, n), FALSE)} : n \in pool \ listdirOf(t, d.path) }
            : d \in { m \in t : m.kind = "dir" /\ m.readable /\ Len(m.path) <= MaxDepth } }

\* the trees under /r of at most k entries with names from pool
RECURSIVE TreesUpTo(_, _)
TreesUpTo(pool, k) ==
    IF k = 0 THEN {{Dir(root_dir, TRUE)}}
    ELSE LET smaller == TreesUpTo(pool, k - 1)
         IN  smaller \cup UNION { { t \cup {e} : e \in NewEntries(t, pool) } : t \in smaller }

\* the trees main() may be run in, and /r itself unreadable
Trees(pool) == TreesUpTo(pool, MaxEntries) \cup {{Dir(root_dir, FALSE)}}

\* the sequences of at most n elements of S
RECURSIVE SeqsUpTo(_, _)
SeqsUpTo(S, n) ==
    IF n = 0 THEN {<<>>}
    ELSE LET shorter == SeqsUpTo(S, n - 1)
         IN  shorter \cup { Append(q, x) : q \in shorter, x \in S }

\* the text of a file with the given lines, each ended by a line break
RECURSIVE FileText(_)
FileText(lines) ==
    IF lines = <<>> THEN <<>> ELSE Head(lines) \o <<"\n">> \o FileText(Tail(lines))

NAME_a == <<"a">>
NAME_B == <<"B">>
NAME_foo == <<"f", "o", "o">>
NAME_b_txt == <<"b", ".", "t", "x", "t">>
NAME_x_txt == <<"x", ".", "t", "x", "t">>
NAME_keep_log == <<"k", "e", "e", "p", ".", "l", "o", "g">>
NAME_B_log == <<"B", ".", "l", "o", "g">>

RULE_a_dir == <<"a", "/">>
RULE_foo_dir == <<"f", "o", "o", "/">>
RULE_star_log == <<"*", ".", "l", "o", "g">>
RULE_not_keep_log == <<"!">> \o NAME_keep_log
RULE_not_x_txt == <<"!">> \o NAME_x_txt
RULE_not_a == <<"!", "a">>
RULE_blank == <<>>
RULE_comment == <<"#", "a">>
RULE_root_a == <<"/", "a">>
RULE_any_txt == <<"?", ".", "t", "x", "t">>

\* the families of inputs: the names the entries take and the rules the
\* ignore file is written with
Scenarios ==
    { [names |-> {NAME_a, NAME_b_txt, NAME_x_txt}, rules |-> {RULE_a_dir, RULE_not_x_txt}],
      [names |-> {NAME_foo, NAME_a, NAME_B},       rules |-> {RULE_foo_dir, RULE_not_a}],
      [names |-> {NAME_keep_log, NAME_B_log, NAME_a},
       rules |-> {RULE_star_log, RULE_not_keep_log}],
      [names |-> {NAME_a, NAME_b_txt},
       rules |-> {RULE_blank, RULE_comment, RULE_root_a, RULE_any_txt}] }

NoFile == [exists |-> FALSE, text |-> <<>>]
IgnoreFile(lines) == [exists |-> TRUE, text |-> FileText(lines)]

\* the ignore files written with the given rules, and none at all
IgnoreFiles(rules) ==
    {NoFile} \cup { IgnoreFile(lines) : lines \in SeqsUpTo(rules, MaxRules) }

\* the tree t with the ignore file f in it: .treeignore is an entry of
\* root_dir like any other
WithIgnoreFile(t, f) ==
    IF f.exists THEN t \cup {File(join(root_dir, DOT_TREEIGNORE))} ELSE t

Init ==
    /\ \E sc \in Scenarios : \E t \in Trees(sc.names) : \E f \in IgnoreFiles(sc.rules) :
          /\ fs = WithIgnoreFile(t, f)
          /\ ignore_file = f
    /\ pathspec = <<>>
    /\ stack = <<>>
    /\ out = <<>>
    /\ printed = <<>>
    /\ queries = {}
    /\ pc = "main"

Spec == Init /\ [][Next]_vars

---------------------------------------------------------------------------
(* What the output is about: the entries of the tree, seen from outside    *)
(* print_tree.                                                             *)

Entries == { n \in fs : n.path # root_dir }
Parent(path) == SubSeq(path, 1, Len(path) - 1)
Depth(path) == Len(path) - Len(root_dir)
NodeAt(path) == CHOOSE n \in fs : n.path = path
IsUnder(path, dir) == Len(dir) < Len(path) /\ SubSeq(path, 1, Len(dir)) = dir
AncestorAt(n, k) == NodeAt(SubSeq(n.path, 1, Len(root_dir) + k))
Siblings(n) == { m \in Entries : m # n /\ Parent(m.path) = Parent(n.path) }
Children(n) == { m \in Entries : Parent(m.path) = n.path }

\* the entry's path from the root, "/" between the components and, for a
\* directory, after the last one
MatcherText(n) ==
    LET rel == SubSeq(n.path, Len(root_dir) + 1, Len(n.path))
        txt == [i \in 1..Len(rel) |-> IF i < Len(rel) \/ n.kind = "dir"
                                       THEN rel[i] \o <<"/">> ELSE rel[i]]
    IN  Join(txt, <<>>)

\* the matcher, once loaded, does not exclude the entry
Survives(n) == ~match_file(pathspec, MatcherText(n))

\* a later surviving sibling: one that sorts after n and is not excluded
HasLaterSurvivor(n) ==
    \E m \in Siblings(n) : Survives(m) /\ StrLess(basename(n.path), basename(m.path))

\* print_tree gets to the entry: the root and every directory above it can be
\* listed, and neither it nor a directory above it is excluded
Shown(n) ==
    /\ n \in Entries
    /\ Survives(n)
    /\ \A m \in fs : IsUnder(n.path, m.path) =>
          /\ m.kind = "dir" /\ m.readable
          /\ m.path # root_dir => Survives(m)

\* the lines printed for the entry at path: its own line, or its marker
LinesOf(path, whats) ==
    { i \in 1..Len(printed) : printed[i].path = path /\ printed[i].what \in whats }
EntryLines == { i \in 1..Len(printed) : printed[i].what \in {"file", "dir"} }

\* the line without its colour tokens
Plain(line) ==
    LET NoColour(c) == c \notin {FORE_GREEN, FORE_BLUE, STYLE_BRIGHT}
    IN  SelectSeq(line, NoColour)

\* the text after the prefix and the connector of the line of an entry at
\* depth d
NameShown(line, d) == SubSeq(Plain(line), 4 * d + 1, Len(Plain(line)))
ConnectorShown(line, d) == SubSeq(line, 4 * (d - 1) + 1, 4 * d)
PrefixSegment(line, k) == SubSeq(line, 4 * (k - 1) + 1, 4 * k)

AllReadable == \A n \in fs : n.readable

---------------------------------------------------------------------------
(* C1: with no ignore rule and every directory readable, every file and    *)
(* every directory under the root is printed exactly once, under its own   *)
(* name, and the children of one directory are printed in strictly         *)
(* increasing case-sensitive code point order of their names.              *)
C1_EveryEntryOnceSorted ==
    (pc # "main" /\ pathspec = <<>> /\ AllReadable) =>
        /\ \A i \in EntryLines : \A j \in EntryLines :
              (i < j /\ Parent(printed[i].path) = Parent(printed[j].path))
                  => StrLess(basename(printed[i].path), basename(printed[j].path))
        /\ \A i \in EntryLines :
              LET n == NodeAt(printed[i].path)
              IN  NameShown(out[i], Depth(n.path)) =
                      basename(n.path) \o (IF n.kind = "dir" THEN <<"/">> ELSE <<>>)
        /\ pc = "exit" =>
              /\ Len(out) = Cardinality(Entries) + 1
              /\ \A n \in Entries : Cardinality(LinesOf(n.path, {"file", "dir"})) = 1

\* a finished run without rules over a tree two levels deep in which "B" and
\* "a" are siblings, so that the case of the letters decides the order
C1_Witness ==
    /\ pc = "exit" /\ pathspec = <<>> /\ AllReadable
    /\ \E n \in Entries : \E m \in Siblings(n) :
          /\ basename(n.path) = NAME_B /\ basename(m.path) = NAME_a
          /\ Depth(n.path) = 2

---------------------------------------------------------------------------
(* C2: a directory that the matcher excludes is never printed, nothing     *)
(* beneath it is printed, and its content is never listed nor handed to    *)
(* the matcher, whatever the rules say about what lies beneath it.         *)
C2_ExcludedDirNeverEntered ==
    pc # "main" =>
        \A n \in Entries : (n.kind = "dir" /\ ~Survives(n)) =>
            /\ \A i \in 1..Len(printed) :
                  printed[i].path # n.path /\ ~IsUnder(printed[i].path, n.path)
            /\ \A k \in 1..Len(stack) :
                  stack[k].dir_path # n.path /\ ~IsUnder(stack[k].dir_path, n.path)
            /\ \A q \in queries : ~IsUnder(q.item_full_path, n.path)

\* a finished run in which print_tree listed a directory holding an excluded
\* directory, whose child the matcher by itself would keep
C2_Witness ==
    /\ pc = "exit"
    /\ \E n \in Entries : \E c \in Children(n) :
          /\ n.kind = "dir" /\ n.readable /\ ~Survives(n) /\ Survives(c)
          /\ \E q \in queries : q.item_full_path = n.path

---------------------------------------------------------------------------
(* C3: the line of an entry carries the connector for the last item        *)
(* exactly when no sibling that survives the filter sorts after it, and    *)
(* the other connector otherwise; every surviving child of a listed        *)
(* directory gets its line.                                                *)
C3_LastSurvivorConnector ==
    pc # "main" =>
        /\ \A i \in EntryLines :
              LET n == NodeAt(printed[i].path)
              IN  ConnectorShown(out[i], Depth(n.path)) =
                      IF HasLaterSurvivor(n) THEN MID_CONNECTOR ELSE LAST_CONNECTOR
        /\ pc = "exit" => \A n \in Entries : Shown(n) => LinesOf(n.path, {"file", "dir"}) # {}

\* a finished run that printed, two levels down, the last surviving child of
\* a directory whose last child in sorted order is excluded, after another
\* surviving child
C3_Witness ==
    /\ pc = "exit"
    /\ \E i \in EntryLines : \E j \in EntryLines :
          LET n == NodeAt(printed[i].path)
              m == NodeAt(printed[j].path)
          IN  /\ Depth(n.path) = 2 /\ m \in Siblings(n) /\ j < i
              /\ ~HasLaterSurvivor(n)
              /\ \E x \in Siblings(n) :
                    ~Survives(x) /\ StrLess(basename(n.path), basename(x.path))

---------------------------------------------------------------------------
(* The lines as the tree itself determines them.                           *)

BAR_SEGMENT == <<BOX_VERT, " ", " ", " ">>
BLANK_SEGMENT == <<" ", " ", " ", " ">>
SegmentUnder(n) == IF HasLaterSurvivor(n) THEN BAR_SEGMENT ELSE BLANK_SEGMENT

\* one segment for each directory above the entry, the root apart
ExpectedPrefix(n) ==
    Join([k \in 1..(Depth(n.path) - 1) |-> SegmentUnder(AncestorAt(n, k))], <<>>)

ExpectedLine(n) ==
    ExpectedPrefix(n)
        \o (IF HasLaterSurvivor(n) THEN MID_CONNECTOR ELSE LAST_CONNECTOR)
        \o (IF n.kind = "dir" THEN <<FORE_BLUE, STYLE_BRIGHT>> \o basename(n.path) \o <<"/">>
            ELSE basename(n.path))

PlainOut == [i \in 1..Len(out) |-> Plain(out[i])]

---------------------------------------------------------------------------
(* C4: /r holds the directory a with the file x.txt in it and the file     *)
(* b.txt, and /r/.treeignore, which is how main() gets the rule, holds     *)
(* the one line "a/".                                                      *)
C4_Input ==
    /\ fs = { Dir(root_dir, TRUE),
              Dir(<< <<"r">>, NAME_a >>, TRUE),
              File(<< <<"r">>, NAME_a, NAME_x_txt >>),
              File(<< <<"r">>, NAME_b_txt >>),
              File(<< <<"r">>, DOT_TREEIGNORE >>) }
    /\ ignore_file = IgnoreFile(<<RULE_a_dir>>)

\* C4 as stated: the output is the root line and b.txt with the connector of
\* an item that another one follows
C4_AsStated ==
    (C4_Input /\ pc = "exit") =>
        PlainOut = << <<"r", "/">>, MID_CONNECTOR \o NAME_b_txt >>

\* C4, amended: the output is the root line, .treeignore, which is an entry of
\* /r and is not excluded, and b.txt with the connector of the last item; a/
\* and a/x.txt are absent
C4_RootIgnoreFileThenLast ==
    (C4_Input /\ pc = "exit") =>
        PlainOut = << <<"r", "/">>,
                      MID_CONNECTOR \o DOT_TREEIGNORE,
                      LAST_CONNECTOR \o NAME_b_txt >>

C4_Witness == C4_Input /\ pc = "exit" /\ Len(out) = 3

---------------------------------------------------------------------------
(* What the lines are when a directory cannot be listed: it has its own    *)
(* line and, right after it, one marker line under the prefix of its       *)
(* children; every line of an entry is the one the tree determines; and by *)
(* the end every entry print_tree gets to has exactly one line, and every  *)
(* unlistable directory among them exactly one marker.                     *)
C5_Lines ==
    pc # "main" =>
        /\ \A i \in 1..Len(printed) :
              (printed[i].what = "denied" /\ printed[i].path # root_dir) =>
                  LET n == NodeAt(printed[i].path)
                  IN  /\ n.kind = "dir" /\ ~n.readable
                      /\ i > 1 /\ printed[i - 1] = Mark(n.path, "dir")
                      /\ out[i] = ExpectedPrefix(n) \o SegmentUnder(n)
                                      \o LAST_CONNECTOR \o PERMISSION_DENIED
        /\ \A i \in EntryLines : out[i] = ExpectedLine(NodeAt(printed[i].path))
        /\ pc = "exit" =>
              \A n \in Entries :
                  /\ Cardinality(LinesOf(n.path, {"file", "dir"})) = IF Shown(n) THEN 1 ELSE 0
                  /\ Cardinality(LinesOf(n.path, {"denied"})) =
                         IF Shown(n) /\ n.kind = "dir" /\ ~n.readable THEN 1 ELSE 0

(* C5: a subdirectory that cannot be listed gets one marker line under the *)
(* prefix of its children and print_tree goes on: no line printed before   *)
(* is changed, and by the end the later siblings of the subdirectory and   *)
(* of the directories above it, like every entry print_tree gets to, have  *)
(* their one line with the prefix and the connector the tree determines.   *)
C5_DeniedIsLocal == [](C5_Lines) /\ [][IsPrefixOf(out, out')]_vars

\* a finished run over a tree with an unreadable directory two levels down
\* that has a later surviving sibling, under a directory that has one too,
\* both printed after the marker
C5_Witness ==
    /\ pc = "exit"
    /\ \E n \in Entries :
          /\ n.kind = "dir" /\ ~n.readable /\ Depth(n.path) = 2 /\ Shown(n)
          /\ \E s \in Siblings(n) : \E t \in Siblings(AncestorAt(n, 1)) :
                /\ StrLess(basename(n.path), basename(s.path))
                /\ StrLess(basename(AncestorAt(n, 1).path), basename(t.path))
                /\ \A i \in LinesOf(n.path, {"denied"}) :
                      /\ \E j \in LinesOf(s.path, {"file", "dir"}) : i < j
                      /\ \E j \in LinesOf(t.path, {"file", "dir"}) : i < j

---------------------------------------------------------------------------
(* C6: the text handed to the matcher for an entry is the entry's path     *)
(* from the traversal root, its components joined by "/", and it ends with *)
(* "/" exactly when the entry is a directory.                              *)
C6_MatcherPaths ==
    \A q \in queries :
        LET n   == NodeAt(q.item_full_path)
            rel == SubSeq(n.path, Len(root_dir) + 1, Len(n.path))
        IN  /\ q.arg = MatcherText(n)
            /\ Split(q.arg, "/") = IF n.kind = "dir" THEN Append(rel, <<>>) ELSE rel
            /\ (q.arg[Len(q.arg)] = "/") <=> (n.kind = "dir")

\* the matcher was asked about a directory and about a file that lie in a
\* directory other than the root
C6_Witness ==
    /\ \E q \in queries : Depth(q.item_full_path) >= 2 /\ NodeAt(q.item_full_path).kind = "dir"
    /\ \E q \in queries : Depth(q.item_full_path) >= 2 /\ NodeAt(q.item_full_path).kind = "file"

---------------------------------------------------------------------------
(* The rules as the ignore file states them.                               *)

RuleLines == IF ignore_file.exists THEN splitlines(ignore_file.text) ELSE <<>>

\* the rules of the file, by line number, that match the text
MatchingRules(text) ==
    { i \in 1..Len(RuleLines) : PatternMatches(CompilePattern(RuleLines[i]), text) }

\* the verdict of the last rule of the file that matches: excluded unless
\* that rule starts with "!", and not excluded when no rule matches
LastRuleExcludes(text) ==
    \E i \in MatchingRules(text) :
        /\ \A j \in (i + 1)..Len(RuleLines) : j \notin MatchingRules(text)
        /\ Head(RuleLines[i]) # "!"

EndsWith(s, t) == Len(t) <= Len(s) /\ SubSeq(s, Len(s) - Len(t) + 1, Len(s)) = t

---------------------------------------------------------------------------
---------------------------------------------------------------------------
\* the path lies beneath a directory named foo
BeneathDirFoo(path) ==
    \E k \in 1..(Depth(path) - 1) :
        LET a == NodeAt(SubSeq(path, 1, Len(root_dir) + k))
        IN  a.kind = "dir" /\ basename(a.path) = NAME_foo

(* C8: with the single rule "foo/", no line is printed for a directory     *)
(* named foo nor for anything beneath one, at any depth, and a regular     *)
(* file named foo, at any depth, has its line; a file foo beneath a        *)
(* directory foo is one of the entries beneath that directory.             *)
C8_DirFooOnly ==
    (pc # "main" /\ RuleLines = <<RULE_foo_dir>>) =>
        /\ \A i \in 1..Len(printed) :
              LET n == NodeAt(printed[i].path)
              IN  /\ ~(n.kind = "dir" /\ basename(n.path) = NAME_foo)
                  /\ ~BeneathDirFoo(n.path)
        /\ pc = "exit" =>
              \A n \in Entries :
                  (n.kind = "file" /\ basename(n.path) = NAME_foo /\ ~BeneathDirFoo(n.path))
                      => /\ Cardinality(LinesOf(n.path, {"file"})) = 1
                         /\ \A i \in LinesOf(n.path, {"file"}) :
                               NameShown(out[i], Depth(n.path)) = NAME_foo

\* a finished run under the rule "foo/" over a tree with a directory foo
\* that has a child, in a directory print_tree listed, and a file foo two
\* levels down
C8_Witness ==
    /\ pc = "exit" /\ RuleLines = <<RULE_foo_dir>>
    /\ \E d \in Entries : \E f \in Entries :
          /\ d.kind = "dir" /\ basename(d.path) = NAME_foo /\ Children(d) # {}
          /\ \E q \in queries : q.item_full_path = d.path
          /\ f.kind = "file" /\ basename(f.path) = NAME_foo /\ Depth(f.path) = 2
          /\ LinesOf(f.path, {"file"}) # {}

---------------------------------------------------------------------------
(* C9: the prefix of a recursive call is the caller's prefix and four      *)
(* characters more, blanks if the directory entered was the last surviving *)
(* item and a bar and three blanks otherwise; so the line of an entry at   *)
(* depth d starts with d - 1 segments, the k-th one being the bar exactly  *)
(* when the directory at depth k above the entry has a later surviving     *)
(* sibling.                                                                *)
C9_PrefixSegments ==
    pc # "main" =>
        /\ \A j \in 2..Len(stack) :
              LET caller == stack[j - 1]
                  n      == NodeAt(join(caller.dir_path, caller.filtered_items[caller.index]))
              IN  /\ stack[j].dir_path = n.path
                  /\ Len(stack[j].prefix) = Len(caller.prefix) + 4
                  /\ SubSeq(stack[j].prefix, 1, Len(caller.prefix)) = caller.prefix
                  /\ SubSeq(stack[j].prefix, Len(caller.prefix) + 1, Len(caller.prefix) + 4)
                         = IF HasLaterSurvivor(n) THEN <<BOX_VERT, " ", " ", " ">>
                           ELSE <<" ", " ", " ", " ">>
        /\ \A i \in EntryLines :
              LET n == NodeAt(printed[i].path)
                  d == Depth(n.path)
              IN  /\ Len(out[i]) > 4 * d
                  /\ ConnectorShown(out[i], d) \in {MID_CONNECTOR, LAST_CONNECTOR}
                  /\ \A k \in 1..(d - 1) :
                        /\ PrefixSegment(out[i], k) \in {BAR_SEGMENT, BLANK_SEGMENT}
                        /\ PrefixSegment(out[i], k) = BAR_SEGMENT
                              <=> HasLaterSurvivor(AncestorAt(n, k))

\* a line was printed for an entry three levels down whose directory at
\* depth 1 has a later surviving sibling and whose directory at depth 2 has
\* none
C9_Witness ==
    \E i \in EntryLines :
        LET n == NodeAt(printed[i].path)
        IN  /\ Depth(n.path) = 3
            /\ HasLaterSurvivor(AncestorAt(n, 1))
            /\ ~HasLaterSurvivor(AncestorAt(n, 2))

---------------------------------------------------------------------------
\* line j is the line of something beneath dir, or the marker of dir
LineUnder(j, dir) ==
    \/ IsUnder(printed[j].path, dir)
    \/ printed[j].path = dir /\ printed[j].what = "denied"

(* C10: the lines under a directory, those of its descendants or its       *)
(* marker, come after its own line and follow it without a gap, so before  *)
(* the line of any later sibling; every printed entry below depth 1 has    *)
(* the line of its directory before it; and a directory that print_tree    *)
(* lists and finds empty after filtering has its line and no line under    *)
(* it.                                                                     *)
C10_PreOrder ==
    pc # "main" =>
        /\ \A i \in 2..Len(printed) : printed[i].what = "dir" =>
              \A j \in 2..Len(printed) : LineUnder(j, printed[i].path) =>
                  /\ i < j
                  /\ \A k \in (i + 1)..j : LineUnder(k, printed[i].path)
        /\ \A j \in EntryLines : Depth(printed[j].path) > 1 =>
              \E i \in 1..(j - 1) : printed[i] = Mark(Parent(printed[j].path), "dir")
        /\ pc = "exit" =>
              \A n \in Entries :
                  (Shown(n) /\ n.kind = "dir" /\ n.readable
                       /\ \A c \in Children(n) : ~Survives(c))
                      => /\ Cardinality(LinesOf(n.path, {"dir"})) = 1
                         /\ \A j \in 1..Len(printed) : ~LineUnder(j, n.path)

\* a finished run that printed a directory, a line under it, and then a
\* later sibling of the directory, itself a directory whose children are all
\* excluded
C10_Witness ==
    /\ pc = "exit"
    /\ \E i \in EntryLines : \E j \in EntryLines : \E k \in EntryLines :
          LET n == NodeAt(printed[k].path)
          IN  /\ printed[i].what = "dir" /\ i < j /\ j < k
              /\ LineUnder(j, printed[i].path)
              /\ n \in Siblings(NodeAt(printed[i].path))
              /\ n.kind = "dir" /\ n.readable
              /\ Children(n) # {} /\ \A c \in Children(n) : ~Survives(c)

=============================================================================
